---- MODULE Spec2Model ----
(***************************************************************************)
(* dyn_formatting: Python-styled runtime formatting of "{key}" patterns.   *)
(*                                                                         *)
(* Model of src/src/lib.rs: dynamic_format (the single-pass scanner) and   *)
(* the Display rendering of DynamicFormatError.  A pattern is a sequence   *)
(* of characters (the Vec<char> of line 75), a character is a one-letter   *)
(* string, positions are the 0-indexed `i` of the enumerate() loop, so the *)
(* character scanned at position i is pattern[i + 1].                      *)
(***************************************************************************)
EXTENDS Integers, Sequences, FiniteSets, TLC

VARIABLES pattern, dictionary, pc, i, ans, left_brace, right_brace, key,
          result, rendered

vars == <<pattern, dictionary, pc, i, ans, left_brace, right_brace, key,
          result, rendered>>

----------------------------------------------------------------------------
(* Inputs *)

\* Longest pattern enumerated exhaustively.
MaxLen == 4

LBRACE == "{"
RBRACE == "}"

\* Characters of the exhaustively enumerated patterns.
Alphabet == {LBRACE, RBRACE, "a", "b"}

\* Keys and values of the exhaustively enumerated dictionaries.
Keys == {<<>>, <<"a">>, <<"a", "b">>}
Vals == {<<"x">>, <<LBRACE, "b", RBRACE>>}

Patterns == UNION {[1..n -> Alphabet] : n \in 0..MaxLen}
Dictionaries == UNION {[S -> Vals] : S \in SUBSET Keys}

\* The dictionary with no key.
EmptyDict == [k \in {} |-> <<>>]

\* Inputs of the repository's tests and doc examples (lines 23-66, 220-355)
\* that are longer than MaxLen or use other characters.
TestInputs ==
    { <<<<"a", "b", "c">>, (<<"a", "b", "c">> :> <<>>)>>,
      <<<<LBRACE, LBRACE, "a", "b", RBRACE, RBRACE>>, (<<"a", "b">> :> <<"1">>)>>,
      <<<<LBRACE, LBRACE, LBRACE, LBRACE, "a", RBRACE, RBRACE>>, EmptyDict>>,
      <<<<"1", LBRACE, "a", RBRACE, "3", "2", LBRACE, "a", RBRACE, "4">>,
        (<<"a">> :> <<"5", "5", "5">>) @@ (<<"b">> :> <<>>)>>,
      <<<<LBRACE, "a", RBRACE, "-", LBRACE, "b", RBRACE>>,
        (<<"a">> :> <<"1">>) @@ (<<"b">> :> <<"2">>)>>,
      <<<<LBRACE, LBRACE, "|", LBRACE, "k", RBRACE, RBRACE, RBRACE>>,
        (<<"k">> :> <<"x", "1", "2", "3">>)>>,
      <<<<"2", "3", "4", LBRACE, "a", "c", RBRACE, LBRACE, "a", "b", RBRACE>>,
        (<<"a", "c">> :> <<"1">>) @@ (<<"a", "a">> :> <<".">>)>>,
      <<<<LBRACE, LBRACE, "a", RBRACE, RBRACE, RBRACE, "3", "2", "4">>, EmptyDict>>,
      <<<<LBRACE, "n", "a", LBRACE, "m", "e", RBRACE, "3", "2", "4">>,
        (<<"m", "e">> :> <<"1">>) @@ (<<"n", "a">> :> <<"2">>)>>,
      <<<<"n", "a", "m", "e", RBRACE, "3", RBRACE, "2", "4">>, EmptyDict>>,
      <<<<"I", LBRACE, "n", LBRACE, "n", RBRACE, RBRACE, ".">>,
        (<<"n">> :> <<"A", "B", "C">>)>>,
      <<<<LBRACE, LBRACE, "a", RBRACE>>, (<<LBRACE, "a">> :> <<"x">>)>>,
      <<<<LBRACE, " ", "a", RBRACE>>, (<<"a">> :> <<"x">>)>>,
      <<<<LBRACE, "a", " ", RBRACE>>, (<<"a">> :> <<"x">>)>>,
      <<<<LBRACE, "a", " ", RBRACE>>, (<<"a", " ">> :> <<"y">>)>>,
      <<<<LBRACE, "A", RBRACE>>, (<<"a">> :> <<"x">>)>> }

\* Dictionaries whose values hold a placeholder of another key, or a lone
\* brace.
ValueInputs ==
    { <<<<LBRACE, "a", RBRACE>>,
        (<<"a">> :> <<LBRACE, "b", RBRACE>>) @@ (<<"b">> :> <<"z">>)>>,
      <<<<LBRACE, "a", RBRACE, LBRACE, "b", RBRACE>>,
        (<<"a">> :> <<RBRACE>>) @@ (<<"b">> :> <<LBRACE>>)>>,
      <<<<LBRACE, "a", RBRACE, "b", RBRACE, RBRACE>>,
        (<<"a">> :> <<LBRACE>>)>> }

Inputs == (Patterns \X Dictionaries) \cup TestInputs \cup ValueInputs

----------------------------------------------------------------------------
(* dynamic_format *)

IsBrace(c) == c = LBRACE \/ c = RBRACE

\* pattern.find('{') == None && pattern.find('}') == None
NoBrace(p) == \A j \in 1..Len(p) : ~IsBrace(p[j])

NoResult == [kind |-> "None"]

Ok(text) == [kind |-> "Ok", text |-> text]

UnmatchedLeft == "Unmatched token '{'"
UnmatchedRight == "Unmatched token '}'"

\* TokenError carrying the part of the pattern scanned so far.
TokenErrorCarriesPrefix(pos, msg) ==
    [kind |-> "TokenError", pattern |-> SubSeq(pattern, 1, i), pos |-> pos,
     desc |-> msg]

\* TokenError carrying the position counted from 1.
TokenErrorOneIndexed(pos, msg) ==
    [kind |-> "TokenError", pattern |-> pattern, pos |-> pos + 1, desc |-> msg]

\* macro token_error!
TokenError(pos, msg) ==
    [kind |-> "TokenError", pattern |-> pattern, pos |-> pos, desc |-> msg]

\* Entries leaving one entry of the dictionary out.
EntriesLeavesOneOut(d) ==
    LET pairs == {<<k, d[k]>> : k \in DOMAIN d}
        n == Cardinality(DOMAIN d)
    IN  {e \in [1..(n - 1) -> pairs] :
            \A j, l \in 1..(n - 1) : j # l => e[j] # e[l]}

\* Lines 120-123: dictionary.iter().map(..).collect(): every entry once, in
\* the arbitrary order of HashMap iteration.
Entries(d) ==
    LET pairs == {<<k, d[k]>> : k \in DOMAIN d}
        n == Cardinality(DOMAIN d)
    IN  {e \in [1..n -> pairs] : \A j, l \in 1..n : j # l => e[j] # e[l]}

\* KeyError carrying the position counted from 1.
KeyErrorOneIndexed(pos, k, entries) ==
    [kind |-> "KeyError", pattern |-> pattern, pos |-> pos + 1, key |-> k,
     entries |-> entries]

\* Lines 115-125: the key error.
KeyError(pos, k, entries) ==
    [kind |-> "KeyError", pattern |-> pattern, pos |-> pos, key |-> k,
     entries |-> entries]

Init ==
    /\ \E input \in Inputs :
          /\ pattern = input[1]
          /\ dictionary = input[2]
    /\ pc = "start"
    /\ i = 0
    /\ ans = <<>>
    /\ left_brace = <<FALSE, 0>>
    /\ right_brace = <<FALSE, 0>>
    /\ key = <<>>
    /\ result = NoResult
    /\ rendered = <<>>

\* FastPath returning the output buffer in place of the pattern.
FastPathReturnsBuffer ==
    /\ pc = "start"
    /\ NoBrace(pattern)
    /\ result' = Ok(ans)
    /\ pc' = "done"
    /\ UNCHANGED <<pattern, dictionary, i, ans, left_brace, right_brace, key,
                   rendered>>

\* Lines 72-74: the pattern has no brace and is returned as it is.
FastPath ==
    /\ pc = "start"
    /\ NoBrace(pattern)
    /\ result' = Ok(pattern)
    /\ pc' = "done"
    /\ UNCHANGED <<pattern, dictionary, i, ans, left_brace, right_brace, key,
                   rendered>>

\* Lines 75-79: the locals of the scan.
BeginScan ==
    /\ pc = "start"
    /\ ~NoBrace(pattern)
    /\ ans' = <<>>
    /\ left_brace' = <<FALSE, 0>>
    /\ right_brace' = <<FALSE, 0>>
    /\ key' = <<>>
    /\ i' = 0
    /\ pc' = "scan"
    /\ UNCHANGED <<pattern, dictionary, result, rendered>>

\* The loop has a character left to scan.
Scanning == pc = "scan" /\ i < Len(pattern)

\* Return that records the error and lets the loop go on.
ReturnKeepsScanning(r) ==
    /\ result' = r
    /\ i' = i + 1
    /\ UNCHANGED pc

\* The return of an error from inside the loop: i stays at the character
\* being scanned.
Return(r) ==
    /\ result' = r
    /\ pc' = "done"
    /\ UNCHANGED i

\* The loop goes on to the next character.
Continue ==
    /\ i' = i + 1
    /\ UNCHANGED <<result, pc>>

\* Adjacent comparing the marker's position with i itself.
AdjacentOffByOne(brace) == brace[2] = i

\* Adjacent with <= in place of ==.
AdjacentOrLater(brace) == brace[2] + 1 <= i

\* Lines 94 and 105: the brace being scanned comes right after the pending
\* one.
Adjacent(brace) == brace[2] + 1 = i

\* ScanLeftBrace reporting the position of the second '{'.
ScanLeftBraceReportsSecond ==
    /\ Scanning
    /\ pattern[i + 1] = LBRACE
    /\ IF left_brace[1]
       THEN IF Adjacent(left_brace)
            THEN /\ ans' = Append(ans, LBRACE)
                 /\ left_brace' = <<FALSE, 0>>
                 /\ Continue
            ELSE /\ Return(TokenError(i, UnmatchedLeft))
                 /\ UNCHANGED <<ans, left_brace>>
       ELSE /\ left_brace' = <<TRUE, i>>
            /\ Continue
            /\ UNCHANGED ans
    /\ UNCHANGED <<pattern, dictionary, right_brace, key, rendered>>

\* Lines 92-102: the character is '{'.
ScanLeftBrace ==
    /\ Scanning
    /\ pattern[i + 1] = LBRACE
    /\ IF left_brace[1]
       THEN IF Adjacent(left_brace)
            THEN /\ ans' = Append(ans, LBRACE)
                 /\ left_brace' = <<FALSE, 0>>
                 /\ Continue
            ELSE /\ Return(TokenError(left_brace[2], UnmatchedLeft))
                 /\ UNCHANGED <<ans, left_brace>>
       ELSE /\ left_brace' = <<TRUE, i>>
            /\ Continue
            /\ UNCHANGED ans
    /\ UNCHANGED <<pattern, dictionary, right_brace, key, rendered>>

\* The key without the spaces at its two ends.
RECURSIVE Trim(_)
Trim(k) ==
    IF k = <<>> THEN k
    ELSE IF Head(k) = " " THEN Trim(Tail(k))
    ELSE IF k[Len(k)] = " " THEN Trim(SubSeq(k, 1, Len(k) - 1))
    ELSE k

\* Get looking the trimmed key up.
GetTrimmed(d, k) == IF Trim(k) \in DOMAIN d THEN <<d[Trim(k)]>> ELSE <<>>

\* Line 112: dictionary.get(key.as_str()): <<value>> for Some(value), <<>>
\* for None.
Get(d, k) == IF k \in DOMAIN d THEN <<d[k]>> ELSE <<>>

\* Substitute without key.clear().
SubstituteKeepsKey(s) ==
    /\ ans' = ans \o s
    /\ left_brace' = <<FALSE, 0>>
    /\ UNCHANGED key

\* Substitute reading the braces of the value as tokens and dropping them.
SubstituteDropsBraces(s) ==
    /\ ans' = ans \o SelectSeq(s, LAMBDA c : ~IsBrace(c))
    /\ key' = <<>>
    /\ left_brace' = <<FALSE, 0>>

\* Lines 113, 127, 128: the value found is pushed, the key and the
\* pending-open marker are cleared.
Substitute(s) ==
    /\ ans' = ans \o s
    /\ key' = <<>>
    /\ left_brace' = <<FALSE, 0>>

\* ScanRightBrace closing an open placeholder before it looks at a pending
\* '}'.
ScanRightBraceClosesFirst ==
    /\ Scanning
    /\ pattern[i + 1] = RBRACE
    /\ IF left_brace[1]
       THEN IF Get(dictionary, key) # <<>>
            THEN /\ Substitute(Get(dictionary, key)[1])
                 /\ Continue
                 /\ UNCHANGED right_brace
            ELSE /\ \E e \in Entries(dictionary) :
                       Return(KeyError(left_brace[2], key, e))
                 /\ UNCHANGED <<ans, left_brace, right_brace, key>>
       ELSE IF right_brace[1]
            THEN IF Adjacent(right_brace)
                 THEN /\ ans' = Append(ans, RBRACE)
                      /\ right_brace' = <<FALSE, 0>>
                      /\ Continue
                      /\ UNCHANGED <<left_brace, key>>
                 ELSE /\ Return(TokenError(right_brace[2], UnmatchedRight))
                      /\ UNCHANGED <<ans, left_brace, right_brace, key>>
            ELSE /\ right_brace' = <<TRUE, i>>
                 /\ Continue
                 /\ UNCHANGED <<ans, left_brace, key>>
    /\ UNCHANGED <<pattern, dictionary, rendered>>

\* Lines 103-131: the character is '}'.
ScanRightBrace ==
    /\ Scanning
    /\ pattern[i + 1] = RBRACE
    /\ IF right_brace[1]
       THEN IF Adjacent(right_brace)
            THEN /\ ans' = Append(ans, RBRACE)
                 /\ right_brace' = <<FALSE, 0>>
                 /\ Continue
                 /\ UNCHANGED <<left_brace, key>>
            ELSE /\ Return(TokenError(right_brace[2], UnmatchedRight))
                 /\ UNCHANGED <<ans, left_brace, right_brace, key>>
       ELSE IF left_brace[1]
            THEN IF Get(dictionary, key) # <<>>
                 THEN /\ Substitute(Get(dictionary, key)[1])
                      /\ Continue
                      /\ UNCHANGED right_brace
                 ELSE /\ \E e \in Entries(dictionary) :
                            Return(KeyError(left_brace[2], key, e))
                      /\ UNCHANGED <<ans, left_brace, right_brace, key>>
            ELSE /\ right_brace' = <<TRUE, i>>
                 /\ Continue
                 /\ UNCHANGED <<ans, left_brace, key>>
    /\ UNCHANGED <<pattern, dictionary, rendered>>

\* ScanOther with the test of line 133 inverted.
ScanOtherInverted ==
    /\ Scanning
    /\ ~IsBrace(pattern[i + 1])
    /\ IF ~left_brace[1]
       THEN /\ key' = Append(key, pattern[i + 1])
            /\ UNCHANGED ans
       ELSE /\ ans' = Append(ans, pattern[i + 1])
            /\ UNCHANGED key
    /\ Continue
    /\ UNCHANGED <<pattern, dictionary, left_brace, right_brace, rendered>>

\* Lines 132-138: any other character.
ScanOther ==
    /\ Scanning
    /\ ~IsBrace(pattern[i + 1])
    /\ IF left_brace[1]
       THEN /\ key' = Append(key, pattern[i + 1])
            /\ UNCHANGED ans
       ELSE /\ ans' = Append(ans, pattern[i + 1])
            /\ UNCHANGED key
    /\ Continue
    /\ UNCHANGED <<pattern, dictionary, left_brace, right_brace, rendered>>

\* Finalize looking at the pending '}' before the pending '{'.
FinalizeRightFirst ==
    /\ pc = "scan"
    /\ i = Len(pattern)
    /\ result' = IF right_brace[1]
                 THEN TokenError(right_brace[2], UnmatchedRight)
                 ELSE IF left_brace[1]
                      THEN TokenError(left_brace[2], UnmatchedLeft)
                      ELSE Ok(ans)
    /\ pc' = "done"
    /\ UNCHANGED <<pattern, dictionary, i, ans, left_brace, right_brace, key,
                   rendered>>

\* Lines 141-148: after the loop.
Finalize ==
    /\ pc = "scan"
    /\ i = Len(pattern)
    /\ result' = IF left_brace[1]
                 THEN TokenError(left_brace[2], UnmatchedLeft)
                 ELSE IF right_brace[1]
                      THEN TokenError(right_brace[2], UnmatchedRight)
                      ELSE Ok(ans)
    /\ pc' = "done"
    /\ UNCHANGED <<pattern, dictionary, i, ans, left_brace, right_brace, key,
                   rendered>>

----------------------------------------------------------------------------
(* impl Display for DynamicFormatError *)

Digit(d) ==
    CASE d = 0 -> "0" [] d = 1 -> "1" [] d = 2 -> "2" [] d = 3 -> "3"
      [] d = 4 -> "4" [] d = 5 -> "5" [] d = 6 -> "6" [] d = 7 -> "7"
      [] d = 8 -> "8" [] d = 9 -> "9"

\* The "{}" rendering of a usize: its decimal digits.
RECURSIVE Decimal(_)
Decimal(n) == IF n < 10 THEN <<Digit(n)>>
              ELSE Append(Decimal(n \div 10), Digit(n % 10))

\* .join(sep) of a sequence of texts.
RECURSIVE Join(_, _)
Join(texts, sep) ==
    IF texts = <<>> THEN <<>>
    ELSE IF Len(texts) = 1 THEN texts[1]
    ELSE texts[1] \o sep \o Join(Tail(texts), sep)

\* Line 199: format!("- {}: {}", key, value)
EntryLine(entry) == <<"- ">> \o entry[1] \o <<": ">> \o entry[2]

AtPos == "\" at pos "

\* Lines 181-204: fmt.  The text written is a sequence whose elements are
\* the pieces of the format string and, between them, the characters of
\* the arguments.
fmt(self) ==
    IF self.kind = "TokenError"
    THEN <<"Parse arguments failed: Token Error (", self.desc,
           ") when parsing pattern \"">>
         \o self.pattern \o <<AtPos>> \o Decimal(self.pos) \o <<".">>
    ELSE <<"Parse arguments failed: Key Not Found (key: \"">> \o self.key
         \o <<"\") when parsing pattern \"">> \o self.pattern
         \o <<AtPos>> \o Decimal(self.pos + 1)
         \o <<".\nHelp: These are valid key-value pairs:\n">>
         \o Join([j \in 1..Len(self.entries) |-> EntryLine(self.entries[j])],
                 <<"\n">>)

IsError(r) == r.kind \in {"TokenError", "KeyError"}

\* The caller renders the error it got (tests::test_error_display).
Display ==
    /\ pc = "done"
    /\ IsError(result)
    /\ rendered = <<>>
    /\ rendered' = fmt(result)
    /\ UNCHANGED <<pattern, dictionary, pc, i, ans, left_brace, right_brace,
                   key, result>>

Next ==
    \/ Display
    \/ FastPath
    \/ BeginScan
    \/ ScanLeftBrace
    \/ ScanRightBrace
    \/ ScanOther
    \/ Finalize

Spec == Init /\ [][Next]_vars

\* One call of dynamic_format: straight-line code and a loop over the
\* characters, with nothing to wait for, so it keeps taking its steps.
Call ==
    \/ FastPath
    \/ BeginScan
    \/ ScanLeftBrace
    \/ ScanRightBrace
    \/ ScanOther
    \/ Finalize

FairSpec == Init /\ [][Next]_vars /\ WF_vars(Call)

Done == pc = "done"

----------------------------------------------------------------------------
(* Reference reading of a pattern, left to right: a character that is no   *)
(* brace is a literal, a brace followed by the same brace is an escape, a  *)
(* '{' followed by characters that are no braces and then by '}' is a      *)
(* placeholder.  Positions here are the 1-indexed ones of the sequence.    *)

\* The first position after j that holds a brace, Len(p) + 1 if none does.
RECURSIVE NextBrace(_, _)
NextBrace(p, j) ==
    IF j + 1 > Len(p) THEN Len(p) + 1
    ELSE IF IsBrace(p[j + 1]) THEN j + 1
    ELSE NextBrace(p, j + 1)

IsEscapeAt(p, j) == j < Len(p) /\ IsBrace(p[j]) /\ p[j + 1] = p[j]

IsPlaceholderAt(p, j) ==
    /\ p[j] = LBRACE
    /\ ~IsEscapeAt(p, j)
    /\ NextBrace(p, j) <= Len(p)
    /\ p[NextBrace(p, j)] = RBRACE

KeyAt(p, j) == SubSeq(p, j + 1, NextBrace(p, j) - 1)

RECURSIVE WellFormedFrom(_, _, _)
WellFormedFrom(p, d, j) ==
    IF j > Len(p) THEN TRUE
    ELSE IF ~IsBrace(p[j]) THEN WellFormedFrom(p, d, j + 1)
    ELSE IF IsEscapeAt(p, j) THEN WellFormedFrom(p, d, j + 2)
    ELSE /\ IsPlaceholderAt(p, j)
         /\ KeyAt(p, j) \in DOMAIN d
         /\ WellFormedFrom(p, d, NextBrace(p, j) + 1)

WellFormed(p, d) == WellFormedFrom(p, d, 1)

\* The expansion of a well-formed pattern.
RECURSIVE ExpandFrom(_, _, _)
ExpandFrom(p, d, j) ==
    IF j > Len(p) THEN <<>>
    ELSE IF ~IsBrace(p[j]) THEN <<p[j]>> \o ExpandFrom(p, d, j + 1)
    ELSE IF IsEscapeAt(p, j) THEN <<p[j]>> \o ExpandFrom(p, d, j + 2)
    ELSE d[KeyAt(p, j)] \o ExpandFrom(p, d, NextBrace(p, j) + 1)

Expand(p, d) == ExpandFrom(p, d, 1)

\* The defects of a pattern in the reference reading, by their 0-indexed
\* positions: a '}' that is no escape, a '{' that no '}' closes before the
\* next '{' or the end, a placeholder whose key the dictionary lacks.  The
\* reading resumes after the lone '}', at the brace that follows the
\* unmatched '{', and after the placeholder.
RECURSIVE DefectsFrom(_, _, _)
DefectsFrom(p, d, j) ==
    IF j > Len(p) THEN {}
    ELSE IF ~IsBrace(p[j]) THEN DefectsFrom(p, d, j + 1)
    ELSE IF IsEscapeAt(p, j) THEN DefectsFrom(p, d, j + 2)
    ELSE IF p[j] = RBRACE THEN {j - 1} \cup DefectsFrom(p, d, j + 1)
    ELSE IF IsPlaceholderAt(p, j)
         THEN (IF KeyAt(p, j) \in DOMAIN d THEN {} ELSE {j - 1})
              \cup DefectsFrom(p, d, NextBrace(p, j) + 1)
         ELSE {j - 1} \cup DefectsFrom(p, d, NextBrace(p, j))

Defects(p, d) == DefectsFrom(p, d, 1)

Earliest(S) == CHOOSE x \in S : \A y \in S : x <= y

----------------------------------------------------------------------------
(* Claims *)

\* C1: for every well-formed pattern (characters that are no braces,
\* escapes "{{" and "}}" outside placeholders, placeholders "{k}" with k a
\* key of the dictionary) dynamic_format returns Ok of the reference
\* expansion: each placeholder replaced by the value of its key, each escape
\* by its brace, every other character copied, in pattern order, the same
\* key substituted at each of its occurrences.
C1_WellFormedExpands ==
    (Done /\ WellFormed(pattern, dictionary))
        => result = Ok(Expand(pattern, dictionary))

\* The test "1{a}32{a}4" with a -> "555": the key a is substituted twice.
C1_Witness ==
    /\ Done
    /\ pattern = <<"1", LBRACE, "a", RBRACE, "3", "2", LBRACE, "a", RBRACE, "4">>
    /\ WellFormed(pattern, dictionary)
    /\ result = Ok(<<"1", "5", "5", "5", "3", "2", "5", "5", "5", "4">>)

\* C2: for every pattern with neither '{' nor '}' (the empty pattern too)
\* and every dictionary (also one whose keys occur as text in the pattern)
\* dynamic_format returns Ok(pattern), the text unchanged.
C2_BraceFreeIdentity ==
    (Done /\ NoBrace(pattern)) => result = Ok(pattern)

\* The test "abc" with the key abc in the dictionary.
C2_Witness ==
    /\ Done
    /\ pattern = <<"a", "b", "c">>
    /\ pattern \in DOMAIN dictionary
    /\ result = Ok(<<"a", "b", "c">>)


\* C3: doubled braces are escapes resolved left to right.  A '{' scanned
\* right after a pending '{' emits one '{' and clears the pending-open
\* marker, a '}' scanned right after a pending '}' emits one '}' and clears
\* the pending-close marker, and neither step looks a key up; so "{{ab}}"
\* yields "{ab}" even when ab is a key and "{{{{a}}" yields "{{a}".
C3_EscapeStep ==
    /\ (Scanning /\ pattern[i + 1] = LBRACE
           /\ left_brace[1] /\ left_brace[2] + 1 = i)
          => /\ ans' = Append(ans, LBRACE)
             /\ ~left_brace'[1]
             /\ UNCHANGED <<key, result, right_brace>>
    /\ (Scanning /\ pattern[i + 1] = RBRACE
           /\ right_brace[1] /\ right_brace[2] + 1 = i)
          => /\ ans' = Append(ans, RBRACE)
             /\ ~right_brace'[1]
             /\ UNCHANGED <<key, result, left_brace>>

C3_EscapeExamples ==
    /\ (Done /\ pattern = <<LBRACE, LBRACE, "a", "b", RBRACE, RBRACE>>)
          => result = Ok(<<LBRACE, "a", "b", RBRACE>>)
    /\ (Done /\ pattern = <<LBRACE, LBRACE, LBRACE, LBRACE, "a", RBRACE, RBRACE>>)
          => result = Ok(<<LBRACE, LBRACE, "a", RBRACE>>)
    /\ (Done /\ pattern = <<LBRACE, LBRACE>>) => result = Ok(<<LBRACE>>)
    /\ (Done /\ pattern = <<RBRACE, RBRACE>>) => result = Ok(<<RBRACE>>)

C3_Escapes == [][C3_EscapeStep]_vars /\ []C3_EscapeExamples

\* "{{ab}}" with ab a key of the dictionary.
C3_Witness ==
    /\ Done
    /\ pattern = <<LBRACE, LBRACE, "a", "b", RBRACE, RBRACE>>
    /\ <<"a", "b">> \in DOMAIN dictionary
    /\ result = Ok(<<LBRACE, "a", "b", RBRACE>>)

\* C4: a KeyError comes from a '}' that closes a placeholder whose key is
\* not in the dictionary: its key is the text between the two braces, its
\* pos is the 0-indexed position of the placeholder's '{', and the scan has
\* stopped at that '}', whatever follows it: a pattern whose earliest defect
\* is a placeholder with a missing key gives that KeyError.
C4_KeyError ==
    /\ result.kind = "KeyError"
        => /\ Done
           /\ i < Len(pattern)
           /\ pattern[i + 1] = RBRACE
           /\ result.pos < i
           /\ pattern[result.pos + 1] = LBRACE
           /\ result.key = SubSeq(pattern, result.pos + 2, i)
           /\ NoBrace(result.key)
           /\ result.key \notin DOMAIN dictionary
    /\ (Done /\ Defects(pattern, dictionary) # {}
           /\ IsPlaceholderAt(pattern, Earliest(Defects(pattern, dictionary)) + 1))
        => /\ result.kind = "KeyError"
           /\ result.pos = Earliest(Defects(pattern, dictionary))
           /\ result.key = KeyAt(pattern, result.pos + 1)
           /\ i = NextBrace(pattern, result.pos + 1) - 1
    /\ (Done /\ pattern = <<"2", "3", "4", LBRACE, "a", "c", RBRACE,
                             LBRACE, "a", "b", RBRACE>>)
        => /\ result.kind = "KeyError"
           /\ result.key = <<"a", "b">>
           /\ result.pos = 7

\* A KeyError returned with an unmatched '{' left unscanned behind it.
C4_Witness ==
    /\ result.kind = "KeyError"
    /\ result.key # <<>>
    /\ i + 1 < Len(pattern)
    /\ pattern[Len(pattern)] = LBRACE

\* C5: a '{' scanned while an earlier '{' is pending and not right before
\* it returns, at that step, a TokenError naming '{' whose pos is the
\* position of the pending '{', whatever follows.
C5_SecondLeftStep ==
    (Scanning /\ pattern[i + 1] = LBRACE
       /\ left_brace[1] /\ left_brace[2] + 1 # i)
      => /\ pc' = "done"
         /\ i' = i
         /\ result' = [kind |-> "TokenError", pattern |-> pattern,
                        pos |-> left_brace[2], desc |-> "Unmatched token '{'"]

C5_SecondLeftShape ==
    (Done /\ result.kind = "TokenError" /\ result.desc = "Unmatched token '{'"
       /\ i < Len(pattern))
      => /\ pattern[i + 1] = LBRACE
         /\ result.pos + 1 < i
         /\ pattern[result.pos + 1] = LBRACE
         /\ NoBrace(SubSeq(pattern, result.pos + 2, i))

C5_SecondLeft == [][C5_SecondLeftStep]_vars /\ []C5_SecondLeftShape

\* The test "{na{me}324", here with both na and me keys of the dictionary.
C5_Witness ==
    /\ Done
    /\ pattern = <<LBRACE, "n", "a", LBRACE, "m", "e", RBRACE, "3", "2", "4">>
    /\ <<"m", "e">> \in DOMAIN dictionary
    /\ result.kind = "TokenError"
    /\ result.pos = 0
    /\ i = 3

\* C6: a '}' scanned while an earlier '}' is pending and not right before
\* it returns a TokenError naming '}' whose pos is the position of the
\* pending '}'; this comes before the closing of an open placeholder.
C6_SecondRightStep ==
    (Scanning /\ pattern[i + 1] = RBRACE
       /\ right_brace[1] /\ right_brace[2] + 1 # i)
      => /\ pc' = "done"
         /\ i' = i
         /\ result' = [kind |-> "TokenError", pattern |-> pattern,
                        pos |-> right_brace[2], desc |-> "Unmatched token '}'"]

C6_SecondRightShape ==
    (Done /\ result.kind = "TokenError" /\ result.desc = "Unmatched token '}'"
       /\ i < Len(pattern))
      => /\ pattern[i + 1] = RBRACE
         /\ result.pos + 1 < i
         /\ pattern[result.pos + 1] = RBRACE
         /\ \A j \in (result.pos + 2)..i : pattern[j] # RBRACE

C6_SecondRight == [][C6_SecondRightStep]_vars /\ []C6_SecondRightShape

\* The error for the pending '}' returned at the '}' of an open placeholder
\* whose key is in the dictionary.
C6_Witness ==
    /\ Done
    /\ result.kind = "TokenError"
    /\ result.desc = "Unmatched token '}'"
    /\ i < Len(pattern)
    /\ left_brace[1]
    /\ key \in DOMAIN dictionary

\* C7: when the last character has been scanned without an error, the
\* result is a TokenError for '{' at the pending-open position if a '{' is
\* pending, else a TokenError for '}' at the pending-close position if a
\* '}' is pending, else Ok of the output built.
C7_Finalization ==
    (Done /\ ~NoBrace(pattern) /\ i = Len(pattern))
      => result =
           IF left_brace[1]
           THEN [kind |-> "TokenError", pattern |-> pattern,
                 pos |-> left_brace[2], desc |-> "Unmatched token '{'"]
           ELSE IF right_brace[1]
                THEN [kind |-> "TokenError", pattern |-> pattern,
                      pos |-> right_brace[2], desc |-> "Unmatched token '}'"]
                ELSE Ok(ans)

\* The scan ends with both a '{' and a '}' pending: the '{' is reported.
C7_Witness ==
    /\ Done
    /\ i = Len(pattern)
    /\ left_brace[1]
    /\ right_brace[1]
    /\ result.kind = "TokenError"
    /\ result.desc = "Unmatched token '{'"
    /\ result.pos = left_brace[2]

\* C8: first fault only.  For a pattern with two independent defects (a
\* lone '}', an unmatched or unterminated '{', a placeholder with a missing
\* key) the one error returned is the defect that comes first in scan
\* order: its pos is the position of the earliest defect, never of a later
\* one.
C8_FirstFault ==
    (Done /\ Cardinality(Defects(pattern, dictionary)) >= 2)
      => /\ IsError(result)
         /\ result.pos = Earliest(Defects(pattern, dictionary))

\* C9: the entries of a KeyError are the (key, value) pairs of the
\* dictionary, each of them once and no other pair, whatever the size of
\* the dictionary.
C9_EntriesAreTheDictionary ==
    result.kind = "KeyError"
      => /\ Len(result.entries) = Cardinality(DOMAIN dictionary)
         /\ \A k \in DOMAIN dictionary :
               Cardinality({j \in 1..Len(result.entries) :
                              result.entries[j] = <<k, dictionary[k]>>}) = 1
         /\ \A j \in 1..Len(result.entries) :
               /\ result.entries[j][1] \in DOMAIN dictionary
               /\ result.entries[j][2] = dictionary[result.entries[j][1]]

\* A KeyError from a dictionary of three entries.
C9_Witness ==
    /\ result.kind = "KeyError"
    /\ Cardinality(DOMAIN dictionary) = 3
    /\ Len(result.entries) = 3

\* The position a rendering shows: the number written after "at pos".
IsDigit(c) == c \in {"0", "1", "2", "3", "4", "5", "6", "7", "8", "9"}

DigitValue(c) == CHOOSE d \in 0..9 : Digit(d) = c

RECURSIVE Number(_)
Number(digits) ==
    IF Len(digits) = 1 THEN DigitValue(digits[1])
    ELSE 10 * Number(SubSeq(digits, 1, Len(digits) - 1))
         + DigitValue(digits[Len(digits)])

ShownPos(text) ==
    LET at == CHOOSE j \in 1..Len(text) : text[j] = AtPos
        end == CHOOSE j \in (at + 1)..Len(text) :
                  /\ ~IsDigit(text[j])
                  /\ \A l \in (at + 1)..(j - 1) : IsDigit(text[l])
    IN  Number(SubSeq(text, at + 1, end - 1))

\* C10: the pos field of an error is 0-indexed, and the Display rendering
\* of the error shows it 1-indexed (pos + 1), for a TokenError and for a
\* KeyError.
C10_DisplayOneIndexed ==
    rendered # <<>> => ShownPos(rendered) = result.pos + 1

\* C11: the scan handles each character at most once (every scan step
\* moves i on by one or returns, and i never passes the length of the
\* pattern), the call ends, and it yields exactly one outcome among
\* Ok(text), TokenError and KeyError, which never changes afterwards; an
\* error carries the fields of its kind and no output text.
C11_Outcome ==
    /\ i <= Len(pattern)
    /\ Done => result.kind \in {"Ok", "TokenError", "KeyError"}
    /\ ~Done => result = NoResult
    /\ result.kind = "Ok" => DOMAIN result = {"kind", "text"}
    /\ result.kind = "TokenError"
         => DOMAIN result = {"kind", "pattern", "pos", "desc"}
    /\ result.kind = "KeyError"
         => DOMAIN result = {"kind", "pattern", "pos", "key", "entries"}

C11_Step ==
    /\ Scanning => \/ i' = i + 1 /\ pc' = "scan"
                   \/ i' = i /\ pc' = "done"
    /\ Done => UNCHANGED <<pc, i, result, ans>>

C11_TerminatesWithOneOutcome ==
    []C11_Outcome /\ [][C11_Step]_vars /\ <>Done

\* An error returned inside the loop after output had been built.
C11_Witness ==
    /\ Done
    /\ IsError(result)
    /\ ans # <<>>
    /\ i < Len(pattern)

\* C12: every error carries in its pattern field the input pattern as it
\* was given, and no step of a call changes the pattern or the dictionary,
\* whether the call succeeds or fails.
C12_PatternCarried ==
    IsError(result) => result.pattern = pattern

C12_InputsUntouched ==
    [](C12_PatternCarried) /\ [][UNCHANGED <<pattern, dictionary>>]_vars

\* A TokenError returned before the end of the pattern: the pattern it
\* carries is the whole pattern, not the part scanned.
C12_Witness ==
    /\ Done
    /\ result.kind = "TokenError"
    /\ i < Len(pattern)
    /\ result.pattern = pattern
    /\ Len(result.pattern) > i + 1

\* A prefix q of a pattern is doomed when no pattern that starts with q can
\* succeed, whatever the keys that are still to be read: in the reference
\* reading of q a '}' that is no escape is followed by another character,
\* or a '{' is followed by characters that are no braces and then by '{',
\* or a placeholder has a key the dictionary lacks.  A brace that is the
\* last character of q may still be doubled, and a '{' followed by
\* characters that are no braces may still be closed.
RECURSIVE DoomedFrom(_, _, _)
DoomedFrom(q, d, j) ==
    IF j > Len(q) THEN FALSE
    ELSE IF ~IsBrace(q[j]) THEN DoomedFrom(q, d, j + 1)
    ELSE IF IsEscapeAt(q, j) THEN DoomedFrom(q, d, j + 2)
    ELSE IF j = Len(q) THEN FALSE
    ELSE IF q[j] = RBRACE THEN TRUE
    ELSE IF NextBrace(q, j) > Len(q) THEN FALSE
    ELSE IF q[NextBrace(q, j)] = LBRACE THEN TRUE
    ELSE IF KeyAt(q, j) \in DOMAIN d
         THEN DoomedFrom(q, d, NextBrace(q, j) + 1)
         ELSE TRUE

Doomed(q, d) == DoomedFrom(q, d, 1)

\* The 0-indexed position of the character that dooms the pattern, the
\* length of the pattern when only the end of the input does.
EarliestDoomed(p, d) ==
    LET doomed == {n \in 1..Len(p) : Doomed(SubSeq(p, 1, n), d)}
    IN  IF doomed = {} THEN Len(p) ELSE Earliest(doomed) - 1

\* C13: an error is raised at the earliest scan step at which the failure
\* is certain: the character being scanned when the error is returned is
\* the first one such that every pattern sharing the prefix up to it fails
\* (once a pending '}' is followed by a character other than '}', the error
\* is raised at that character, not at a later '}' or at the end).
C13_EarliestDetection ==
    (Done /\ IsError(result)) => i = EarliestDoomed(pattern, dictionary)

Both == left_brace[1] /\ right_brace[1]

\* C14: in a run that ends in Ok the pending-open and the pending-close
\* markers are never set at the same scan step: once both are set, the
\* call can only end in an error.
C14_BothPendingFails ==
    [](Both => [](Done => IsError(result)))

\* Both markers set while the scan goes on.
C14_Witness ==
    /\ pc = "scan"
    /\ Both
    /\ i < Len(pattern)

\* C15: substitution is single-pass.  The step that closes a placeholder
\* whose key is found appends the value as it is and goes on to the next
\* character of the pattern; the value is not scanned, so a '{', a '}' or a
\* "{key}" in it comes out literally, with no further lookup and no
\* TokenError.
C15_SubstituteStep ==
    (Scanning /\ pattern[i + 1] = RBRACE /\ ~right_brace[1] /\ left_brace[1]
       /\ key \in DOMAIN dictionary)
      => /\ ans' = ans \o dictionary[key]
         /\ i' = i + 1
         /\ pc' = "scan"
         /\ result' = result
         /\ left_brace' = <<FALSE, 0>>
         /\ right_brace' = right_brace

C15_ValueVerbatim ==
    /\ \A k \in DOMAIN dictionary :
         (Done /\ NoBrace(k) /\ pattern = <<LBRACE>> \o k \o <<RBRACE>>)
           => result = Ok(dictionary[k])
    /\ (Done /\ pattern = <<LBRACE, "a", RBRACE, LBRACE, "b", RBRACE>>
              /\ dictionary = (<<"a">> :> <<RBRACE>>) @@ (<<"b">> :> <<LBRACE>>))
         => result = Ok(<<RBRACE, LBRACE>>)
    /\ (Done /\ pattern = <<LBRACE, "a", RBRACE, "b", RBRACE, RBRACE>>
              /\ dictionary = (<<"a">> :> <<LBRACE>>))
         => result = Ok(<<LBRACE, "b", RBRACE>>)

C15_SinglePass == [][C15_SubstituteStep]_vars /\ []C15_ValueVerbatim

\* "{a}" with a -> "{b}" and b a key too: the result is "{b}".
C15_Witness ==
    /\ Done
    /\ pattern = <<LBRACE, "a", RBRACE>>
    /\ <<"b">> \in DOMAIN dictionary
    /\ <<"a">> \in DOMAIN dictionary
    /\ dictionary[<<"a">>] = <<LBRACE, "b", RBRACE>>
    /\ result = Ok(<<LBRACE, "b", RBRACE>>)

\* The text with each '{' replaced by "{{" and each '}' by "}}".
RECURSIVE Escape(_)
Escape(t) ==
    IF t = <<>> THEN <<>>
    ELSE IF IsBrace(Head(t)) THEN <<Head(t), Head(t)>> \o Escape(Tail(t))
    ELSE <<Head(t)>> \o Escape(Tail(t))

\* The text with the character after each brace left out: the one text t,
\* if there is one, with Escape(t) = p.
RECURSIVE HalveFrom(_, _)
HalveFrom(p, j) ==
    IF j > Len(p) THEN <<>>
    ELSE IF IsBrace(p[j]) THEN <<p[j]>> \o HalveFrom(p, j + 2)
    ELSE <<p[j]>> \o HalveFrom(p, j + 1)

Halve(p) == HalveFrom(p, 1)

\* C16: escaping round trip.  For every text t and every dictionary, the
\* pattern made of t with each '{' doubled and each '}' doubled gives Ok(t).
C16_EscapeRoundTrip ==
    (Done /\ Escape(Halve(pattern)) = pattern) => result = Ok(Halve(pattern))

\* "{{}}", the escaping of "{}", with the empty key in the dictionary.
C16_Witness ==
    /\ Done
    /\ pattern = Escape(<<LBRACE, RBRACE>>)
    /\ <<>> \in DOMAIN dictionary
    /\ result = Ok(<<LBRACE, RBRACE>>)

\* C17: the position of an error is a position of the pattern, and the
\* character there is the brace the error is about: '{' for a KeyError and
\* for a TokenError about '{', '}' for a TokenError about '}'.
C17_PosPointsAtBrace ==
    IsError(result)
      => /\ result.pos >= 0
         /\ result.pos < Len(pattern)
         /\ pattern[result.pos + 1] =
              IF result.kind = "TokenError" /\ result.desc = "Unmatched token '}'"
              THEN RBRACE ELSE LBRACE
         /\ result.kind = "TokenError"
              => result.desc \in {"Unmatched token '{'", "Unmatched token '}'"}

\* A TokenError about a '}' that is not the first character.
C17_Witness ==
    /\ Done
    /\ result.kind = "TokenError"
    /\ result.desc = "Unmatched token '}'"
    /\ result.pos > 0
    /\ pattern[result.pos + 1] = RBRACE

\* A '}' is pending and the character after it is no '}', or there is none.
LoneRightPending ==
    /\ pc = "scan"
    /\ right_brace[1]
    /\ IF right_brace[2] + 2 <= Len(pattern)
       THEN pattern[right_brace[2] + 2] # RBRACE
       ELSE TRUE

\* C18: a lone '}' is fatal as a TokenError.  Once a '}' is pending and the
\* next character is no '}' (or the input ends), the call returns a
\* TokenError, never Ok and never a KeyError, whatever follows; so does a
\* pattern whose earliest defect is a lone '}'.
C18_LoneRightEarliest ==
    (Done /\ Defects(pattern, dictionary) # {}
       /\ pattern[Earliest(Defects(pattern, dictionary)) + 1] = RBRACE)
      => result.kind = "TokenError"

C18_LoneRightFatal ==
    /\ [](LoneRightPending => [](Done => result.kind = "TokenError"))
    /\ []C18_LoneRightEarliest

\* The TokenError returned at the '}' of a later placeholder whose key is
\* missing.
C18_Witness ==
    /\ Done
    /\ result.kind = "TokenError"
    /\ right_brace[1]
    /\ left_brace[1]
    /\ i < Len(pattern)
    /\ pattern[i + 1] = RBRACE
    /\ key \notin DOMAIN dictionary

\* C19: no key carry-over.  While no '{' is pending the key accumulator is
\* empty, and while one is pending the accumulator holds the characters
\* scanned since that '{' and no other; a character that is no brace,
\* scanned while a '{' is pending, leaves the output buffer as it is.
C19_KeyIsSincePending ==
    /\ ~left_brace[1] => key = <<>>
    /\ left_brace[1]
         => /\ pattern[left_brace[2] + 1] = LBRACE
            /\ key = SubSeq(pattern, left_brace[2] + 2, i)

C19_KeyStep ==
    (Scanning /\ left_brace[1] /\ ~IsBrace(pattern[i + 1]))
      => /\ ans' = ans
         /\ key' = Append(key, pattern[i + 1])

C19_NoKeyCarryOver == []C19_KeyIsSincePending /\ [][C19_KeyStep]_vars

\* The second placeholder of "1{a}32{a}4" being read, after the first one
\* was substituted.
C19_Witness ==
    /\ pc = "scan"
    /\ left_brace = <<TRUE, 6>>
    /\ key = <<"a">>
    /\ ans = <<"1", "5", "5", "5", "3", "2">>

\* C20: keys are looked up verbatim.  The key looked up is the sequence of
\* characters between the braces, not trimmed and not normalised; "{}"
\* looks the empty key up, so it gives Ok when the dictionary has the key
\* "" and a KeyError with the key "" otherwise, not a TokenError.
C20_LookupStep ==
    (Scanning /\ pattern[i + 1] = RBRACE /\ ~right_brace[1] /\ left_brace[1])
      => LET k == SubSeq(pattern, left_brace[2] + 2, i)
         IN  IF k \in DOMAIN dictionary
             THEN /\ ans' = ans \o dictionary[k]
                  /\ pc' = "scan"
             ELSE /\ pc' = "done"
                  /\ result'.kind = "KeyError"
                  /\ result'.key = k
                  /\ result'.pos = left_brace[2]

C20_EmptyAndSpacedKeys ==
    /\ (Done /\ pattern = <<LBRACE, RBRACE>>)
         => IF <<>> \in DOMAIN dictionary
            THEN result = Ok(dictionary[<<>>])
            ELSE /\ result.kind = "KeyError"
                 /\ result.key = <<>>
                 /\ result.pos = 0
    /\ (Done /\ pattern = <<LBRACE, " ", "a", RBRACE>>)
         => result.kind = "KeyError" /\ result.key = <<" ", "a">>
    /\ (Done /\ pattern = <<LBRACE, "a", " ", RBRACE>>)
         => IF <<"a", " ">> \in DOMAIN dictionary
            THEN result = Ok(dictionary[<<"a", " ">>])
            ELSE result.kind = "KeyError" /\ result.key = <<"a", " ">>
    /\ (Done /\ pattern = <<LBRACE, "A", RBRACE>>)
         => result.kind = "KeyError" /\ result.key = <<"A">>

C20_VerbatimLookup == [][C20_LookupStep]_vars /\ []C20_EmptyAndSpacedKeys

\* "{}" with a dictionary that has keys, but not the empty one.
C20_Witness ==
    /\ Done
    /\ pattern = <<LBRACE, RBRACE>>
    /\ DOMAIN dictionary # {}
    /\ <<>> \notin DOMAIN dictionary
    /\ result.kind = "KeyError"
    /\ result.key = <<>>

====
